---- MODULE Spec2Model ----
(***************************************************************************)
(* FormatBenchmarkTool (format_benchmark_tool.py) driving the benchmark    *)
(* variants of benchmarks.py.  One API call of the tool (run() or          *)
(* get_results()) is in progress at a time; pc is the position inside it.  *)
(* The external collaborators (pandas codecs, os.path, os.remove) are the  *)
(* environment: a codec call, a size query or a delete may raise.          *)
(***************************************************************************)
EXTENDS Naturals, Sequences, FiniteSets

\* ---------------------------------------------------------------- bounds
MaxN == 2
MaxCalls == 2
MaxFaults == 1

\* ------------------------------------------------------- static structure

\* The with-items of FormatBenchmarkTool.run(), in the order they are written.
WithItems ==
    << "CSVBenchmark", "JSONBenchmark", "XMLBenchmark", "ExcelBenchmark",
       "PickleBenchmark", "HDF5Benchmark", "FeatherBenchmark",
       "ParquetBenchmark", "ORCBenchmark", "StataBenchmark" >>

NumItems == Len(WithItems)

Items == 1..NumItems

\* The file extension each with-item's path is built with.
Extension ==
    << "csv", "json", "xml", "xlsx", "pkl", "h5", "feather", "parquet",
       "orc", "dta" >>

\* os.path.join(write_dir, f'{file_prefix}.<ext>'): one path per with-item.
Path(i) == Extension[i]

\* get_format_name() of each benchmark class.
FormatName(cls) ==
    CASE cls = "CSVBenchmark"     -> "csv"
      [] cls = "JSONBenchmark"    -> "json"
      [] cls = "XMLBenchmark"     -> "xml"
      [] cls = "ExcelBenchmark"   -> "excel"
      [] cls = "PickleBenchmark"  -> "pickle"
      [] cls = "HDF5Benchmark"    -> "hdf5"
      [] cls = "FeatherBenchmark" -> "feather"
      [] cls = "ParquetBenchmark" -> "parquet"
      [] cls = "ORCBenchmark"     -> "orc"
      [] cls = "StataBenchmark"   -> "stata"

\* The order of the `as` names inside pd.concat([...]) of run(), as indexes
\* into the with-items (csv_benchmark is item 1, stata_benchmark item 10).
ConcatOrderSwapped == << 2, 1, 3, 4, 5, 6, 7, 8, 9, 10 >>

ConcatOrder == << 1, 2, 3, 4, 5, 6, 7, 8, 9, 10 >>

\* The three measurements of one loop iteration of collect_results, in the
\* order the row's list literal evaluates them.
RowOrderReadFirst == << "write", "read", "size" >>

RowOrder == << "write", "size", "read" >>

\* ------------------------------------------------------------------ state
VARIABLES
    N,            \* number_of_repeats given to the tool
    results,      \* FormatBenchmarkTool.results: the rows (format tags)
    files,        \* paths that exist in write_dir
    pc,           \* position inside the API call in progress
    cur,          \* with-item being constructed / entered (0: none)
    rep,          \* loop counter of collect_results
    step,         \* position inside one loop iteration (index in RowOrder)
    pass,         \* 1: collect_results called by __enter__, 2: by get_results
    bench,        \* bench[i]: AbstractBenchmark.results of with-item i
    entered,      \* with-items whose __enter__ has returned in this run
    exitIdx,      \* with-item whose __exit__ runs next (0: none left)
    exc,          \* exception in flight: "none", "measure" or "clean"
    caller,       \* API call in progress or last made
    callRuns,     \* run() invocations made by that call
    prior,        \* <<runs started, runs completed>> when that call began
    before,       \* the tool's results when the current run() began
    ret,          \* how the last call ended: "none", "table", "raised"
    log,          \* operations of the current call, in order: <<item, what>>
    started,      \* run() invocations so far
    completed,    \* run() invocations that returned normally so far
    calls,        \* API calls so far
    faults        \* environment failures so far

vars == << N, results, files, pc, cur, rep, step, pass, bench, entered,
           exitIdx, exc, caller, callRuns, prior, before, ret, log, started,
           completed, calls, faults >>

\* ---------------------------------------------------------------- helpers
RECURSIVE Flatten(_, _)
\* pd.concat of the frames frames[order[1]], frames[order[2]], ...
Flatten(frames, order) ==
    IF order = << >> THEN << >>
    ELSE frames[Head(order)] \o Flatten(frames, Tail(order))

\* FormatBenchmarkTool.run, body of the with block: the new value of
\* self.results.
Aggregate(res, frames) == res \o Flatten(frames, ConcatOrder)

\* FormatBenchmarkTool.get_results: the guard of self.run().
ToolNeedsRunAlways(res) == TRUE

ToolNeedsRun(res) == res = << >>

\* AbstractBenchmark.get_results: the guard of self.collect_results().
BenchNeedsCollectAlways(res) == TRUE

BenchNeedsCollect(res) == res = << >>

\* AbstractBenchmark.clean_files: the guard of os.remove.
ShouldRemoveAlways(fs, p) == TRUE

ShouldRemove(fs, p) == p \in fs

\* os.remove(self.path) when it succeeds.
RemoveFileNoop(fs, p) == fs

RemoveFile(fs, p) == fs \ {p}

\* AbstractBenchmark.__exit__ returns None: the exception in flight is not
\* suppressed.
ExitSuppressesTrue == TRUE

ExitSuppresses == FALSE

\* The with statement: after the __exit__ of item i (which raised or not),
\* the next enclosing item's __exit__ runs.
NextExitSkipOnRaise(i, raised) == IF raised THEN 0 ELSE i - 1

NextExit(i, raised) == i - 1

\* The with statement: when the __enter__ of item i raises, the __exit__ of
\* the items entered before it run, innermost first; item i's does not.
FirstExitOnRaise(i) == i - 1

Row(i) == FormatName(WithItems[i])

EmptyFrames == [i \in Items |-> << >>]

Logged(i, what) == Append(log, << i, what >>)

\* ------------------------------------------------------------------- Init
Init ==
    /\ N \in 0..MaxN
    /\ results = << >>
    /\ files = {}
    /\ pc = "idle"
    /\ cur = 0
    /\ rep = 0
    /\ step = 0
    /\ pass = 0
    /\ bench = EmptyFrames
    /\ entered = {}
    /\ exitIdx = 0
    /\ exc = "none"
    /\ caller = "none"
    /\ callRuns = 0
    /\ prior = << 0, 0 >>
    /\ before = << >>
    /\ ret = "none"
    /\ log = << >>
    /\ started = 0
    /\ completed = 0
    /\ calls = 0
    /\ faults = 0

\* ---------------------------------------------------------------- actions

\* Entry of FormatBenchmarkTool.run: the first with-item is evaluated next.
BeginRun(who) ==
    /\ pc' = "construct"
    /\ cur' = 1
    /\ rep' = 0
    /\ step' = 0
    /\ pass' = 0
    /\ bench' = EmptyFrames
    /\ entered' = {}
    /\ exitIdx' = 0
    /\ exc' = "none"
    /\ caller' = who
    /\ callRuns' = 1
    /\ prior' = << started, completed >>
    /\ before' = results
    /\ ret' = "none"
    /\ log' = << >>
    /\ started' = started + 1
    /\ calls' = calls + 1
    /\ UNCHANGED << N, results, files, completed, faults >>

\* A caller invokes tool.run().
CallRun ==
    /\ pc = "idle"
    /\ calls < MaxCalls
    /\ BeginRun("run")

\* A caller invokes tool.get_results() and the table is empty: run() first.
CallGetResultsRun ==
    /\ pc = "idle"
    /\ calls < MaxCalls
    /\ ToolNeedsRun(results)
    /\ BeginRun("get_results")

\* A caller invokes tool.get_results() and the table is returned as it is.
\* No benchmark object exists during this call: bench, entered and log
\* describe the call in progress and are empty.
CallGetResultsReturn ==
    /\ pc = "idle"
    /\ calls < MaxCalls
    /\ ~ToolNeedsRun(results)
    /\ caller' = "get_results"
    /\ callRuns' = 0
    /\ prior' = << started, completed >>
    /\ before' = results
    /\ ret' = "table"
    /\ log' = << >>
    /\ bench' = EmptyFrames
    /\ entered' = {}
    /\ exc' = "none"
    /\ calls' = calls + 1
    /\ UNCHANGED << N, results, files, pc, cur, rep, step, pass, exitIdx,
                    started, completed, faults >>

\* AbstractBenchmark.__init__ of with-item cur, then __enter__ calls
\* collect_results().
Construct ==
    /\ pc = "construct"
    /\ bench' = [bench EXCEPT ![cur] = << >>]
    /\ pass' = 1
    /\ rep' = 0
    /\ step' = 0
    /\ pc' = "loop"
    /\ UNCHANGED << N, results, files, cur, entered, exitIdx, exc, caller,
                    callRuns, prior, before, ret, log, started, completed,
                    calls, faults >>

\* collect_results: `for _ in range(self.N)`.
LoopNext ==
    /\ pc = "loop"
    /\ rep < N
    /\ step' = 1
    /\ pc' = "measure"
    /\ UNCHANGED << N, results, files, cur, rep, pass, bench, entered,
                    exitIdx, exc, caller, callRuns, prior, before, ret, log,
                    started, completed, calls, faults >>

\* collect_results returns; __enter__ goes on to self.get_results(), or
\* get_results returns self.results and __enter__ returns.
LoopEnd ==
    /\ pc = "loop"
    /\ rep >= N
    /\ pc' = IF pass = 1 THEN "getres" ELSE "entered"
    /\ UNCHANGED << N, results, files, cur, rep, step, pass, bench, entered,
                    exitIdx, exc, caller, callRuns, prior, before, ret, log,
                    started, completed, calls, faults >>

\* AbstractBenchmark.get_results called by __enter__.
BenchGetResults ==
    /\ pc = "getres"
    /\ IF BenchNeedsCollect(bench[cur])
       THEN /\ pass' = 2
            /\ rep' = 0
            /\ pc' = "loop"
       ELSE /\ pc' = "entered"
            /\ UNCHANGED << pass, rep >>
    /\ UNCHANGED << N, results, files, cur, step, bench, entered, exitIdx,
                    exc, caller, callRuns, prior, before, ret, log, started,
                    completed, calls, faults >>

\* One measurement finished without raising: the next one of the row, or the
\* row is complete and is concatenated to self.results.
Advance ==
    IF step < Len(RowOrder)
    THEN /\ step' = step + 1
         /\ UNCHANGED << pc, rep, bench >>
    ELSE /\ bench' = [bench EXCEPT ![cur] = Append(@, Row(cur))]
         /\ rep' = rep + 1
         /\ step' = 0
         /\ pc' = "loop"

\* A measurement raised inside __enter__ of with-item cur: the exception
\* leaves collect_results and unwinds the with statement.
Raise(what) ==
    /\ faults' = faults + 1
    /\ log' = Logged(cur, what)
    /\ exc' = "measure"
    /\ exitIdx' = FirstExitOnRaise(cur)
    /\ pc' = "exit"
    /\ UNCHANGED << rep, step, bench >>

\* timeit.Timer(self.measure_write).timeit(number=1)
MeasureWrite ==
    /\ pc = "measure"
    /\ RowOrder[step] = "write"
    /\ \/ /\ files' = files \cup {Path(cur)}
          /\ log' = Logged(cur, "write")
          /\ Advance
          /\ UNCHANGED << exc, exitIdx, faults >>
       \/ /\ faults < MaxFaults
          /\ \E partial \in BOOLEAN :
                 files' = IF partial THEN files \cup {Path(cur)} ELSE files
          /\ Raise("write_raise")
    /\ UNCHANGED << N, results, cur, pass, entered, caller, callRuns, prior,
                    before, ret, started, completed, calls >>

\* self.measure_file_size(): os.path.getsize(self.path)
MeasureFileSize ==
    /\ pc = "measure"
    /\ RowOrder[step] = "size"
    /\ \/ /\ Path(cur) \in files
          /\ log' = Logged(cur, "size")
          /\ Advance
          /\ UNCHANGED << exc, exitIdx, faults >>
       \/ /\ Path(cur) \notin files \/ faults < MaxFaults
          /\ Raise("size_raise")
    /\ UNCHANGED << N, results, files, cur, pass, entered, caller, callRuns,
                    prior, before, ret, started, completed, calls >>

\* timeit.Timer(self.measure_read).timeit(number=1)
MeasureRead ==
    /\ pc = "measure"
    /\ RowOrder[step] = "read"
    /\ \/ /\ Path(cur) \in files
          /\ log' = Logged(cur, "read")
          /\ Advance
          /\ UNCHANGED << exc, exitIdx, faults >>
       \/ /\ Path(cur) \notin files \/ faults < MaxFaults
          /\ Raise("read_raise")
    /\ UNCHANGED << N, results, files, cur, pass, entered, caller, callRuns,
                    prior, before, ret, started, completed, calls >>

\* __enter__ of with-item cur returned: the next with-item is evaluated, or
\* the body of the with statement is reached.
Entered ==
    /\ pc = "entered"
    /\ entered' = entered \cup {cur}
    /\ IF cur < NumItems
       THEN /\ cur' = cur + 1
            /\ pc' = "construct"
       ELSE /\ pc' = "body"
            /\ UNCHANGED cur
    /\ UNCHANGED << N, results, files, rep, step, pass, bench, exitIdx, exc,
                    caller, callRuns, prior, before, ret, log, started,
                    completed, calls, faults >>

\* The body of the with statement: self.results = pd.concat([...]).
Body ==
    /\ pc = "body"
    /\ results' = Aggregate(results, bench)
    /\ log' = Logged(0, "aggregate")
    /\ exitIdx' = NumItems
    /\ pc' = "exit"
    /\ UNCHANGED << N, files, cur, rep, step, pass, bench, entered, exc,
                    caller, callRuns, prior, before, ret, started, completed,
                    calls, faults >>

\* __exit__ of with-item exitIdx: clean_files().
Exit ==
    /\ pc = "exit"
    /\ exitIdx >= 1
    /\ \/ /\ ShouldRemove(files, Path(exitIdx))
          /\ Path(exitIdx) \in files
          /\ files' = RemoveFile(files, Path(exitIdx))
          /\ log' = Logged(exitIdx, "cleaned")
          /\ exc' = IF ExitSuppresses THEN "none" ELSE exc
          /\ exitIdx' = NextExit(exitIdx, FALSE)
          /\ UNCHANGED faults
       \/ /\ ShouldRemove(files, Path(exitIdx))
          /\ Path(exitIdx) \notin files \/ faults < MaxFaults
          /\ log' = Logged(exitIdx, "clean_raise")
          /\ exc' = "clean"
          /\ exitIdx' = NextExit(exitIdx, TRUE)
          /\ faults' = faults + 1
          /\ UNCHANGED files
       \/ /\ ~ShouldRemove(files, Path(exitIdx))
          /\ log' = Logged(exitIdx, "missing")
          /\ exc' = IF ExitSuppresses THEN "none" ELSE exc
          /\ exitIdx' = NextExit(exitIdx, FALSE)
          /\ UNCHANGED << files, faults >>
    /\ UNCHANGED << N, results, pc, cur, rep, step, pass, bench, entered,
                    caller, callRuns, prior, before, ret, started, completed,
                    calls >>

\* The with statement is left: run() returns or the exception propagates to
\* the caller (through get_results when that made the call).
Return ==
    /\ pc = "exit"
    /\ exitIdx = 0
    /\ pc' = "idle"
    /\ cur' = 0
    /\ IF exc = "none"
       THEN /\ completed' = completed + 1
            /\ ret' = IF caller = "get_results" THEN "table" ELSE "none"
       ELSE /\ ret' = "raised"
            /\ UNCHANGED completed
    /\ UNCHANGED << N, results, files, rep, step, pass, bench, entered,
                    exitIdx, exc, caller, callRuns, prior, before, log,
                    started, calls, faults >>

Next ==
    \/ CallRun
    \/ CallGetResultsRun
    \/ CallGetResultsReturn
    \/ Construct
    \/ LoopNext
    \/ LoopEnd
    \/ BenchGetResults
    \/ MeasureWrite
    \/ MeasureFileSize
    \/ MeasureRead
    \/ Entered
    \/ Body
    \/ Exit
    \/ Return

Spec == Init /\ [][Next]_vars

\* ------------------------------------------------- reading the call's log
MeasureKinds == {"write", "size", "read"}

RaiseKinds == {"write_raise", "size_raise", "read_raise"}

CleanKinds == {"cleaned", "missing", "clean_raise"}

\* The measurements of with-item i that returned, in the order they ran.
VariantOps(i) ==
    LET sel == SelectSeq(log, LAMBDA e : e[1] = i /\ e[2] \in MeasureKinds)
    IN  [k \in 1..Len(sel) |-> sel[k][2]]

Count(i, what) == Cardinality({k \in DOMAIN log : log[k] = << i, what >>})

\* clean_files of with-item i has been invoked in this run.
CleanInvoked(i) == \E k \in DOMAIN log : log[k][1] = i /\ log[k][2] \in CleanKinds

\* The with statement of a run() has been left.
ScopeExited == pc = "idle" /\ callRuns >= 1

\* The state right after self.results was assigned in the with body.
Aggregated ==
    /\ pc = "exit"
    /\ exitIdx = NumItems
    /\ log # << >>
    /\ log[Len(log)] = << 0, "aggregate" >>

Repeat(what, n) == [k \in 1..n |-> what]

\* ------------------------------------------------------------------ claims

\* C1 (as claimed): once the with block of run() has been left, no variant
\* that took part in the run still has its destination file on disk, whether
\* its measurement succeeded or one of its measure_* calls raised.  (Runs in
\* which a delete itself raised are left out: the claim is not about them.)
C1_NoFileAfterScope ==
    (ScopeExited /\ \A k \in DOMAIN log : log[k][2] # "clean_raise")
        => \A i \in Items :
               (\E k \in DOMAIN log : log[k][1] = i) => Path(i) \notin files

\* C2 (as claimed): after any number k >= 1 of successful run() calls the
\* combined table holds the rows of exactly one run: N rows per format.
C2_RunReplacesTable ==
    (pc = "idle" /\ completed >= 1)
        => \A i \in Items :
               Cardinality({k \in DOMAIN results : results[k] = Row(i)}) = N

\* C3 (as claimed): get_results() triggers exactly one run() when no run has
\* occurred yet, and triggers none (no write, read or delete) when a run has
\* already completed, for every repeat count.
C3_LazyForEveryN ==
    (pc = "idle" /\ caller = "get_results")
        => /\ prior[1] = 0 => callRuns = 1
           /\ prior[2] >= 1 => (callRuns = 0 /\ log = << >> /\ ret = "table")

\* C3 (amended): get_results() triggers exactly one run() when no run has
\* occurred yet and then returns the table (or the run's error propagates);
\* when a run has already completed and the repeat count is at least 1 it
\* returns the existing table without another run; with a repeat count of 0
\* the table stays empty and every get_results() call runs again.
C3_LazyForPositiveN ==
    (pc = "idle" /\ caller = "get_results")
        => /\ prior[1] = 0 => callRuns = 1
           /\ callRuns = 1 =>
                  \/ ret = "raised" /\ completed = prior[2]
                  \/ ret = "table" /\ completed = prior[2] + 1
           /\ (prior[2] >= 1 /\ N >= 1)
                  => /\ callRuns = 0
                     /\ log = << >>
                     /\ ret = "table"
                     /\ started = prior[1]
                     /\ Len(results) >= NumItems * N
           /\ N = 0 => callRuns = 1

C3_Witness ==
    /\ pc = "idle"
    /\ caller = "get_results"
    /\ prior[2] >= 1
    /\ N >= 1
    /\ callRuns = 0

\* C4: a variant whose __enter__ (collect_results() then get_results()) has
\* returned holds exactly N rows, and measure_write and measure_read each ran
\* exactly N times for it: never 2N, never fewer.
C4_RepeatCount ==
    \A i \in entered :
        /\ Len(bench[i]) = N
        /\ Count(i, "write") = N
        /\ Count(i, "read") = N

C4_Witness == N >= 2 /\ entered # {} /\ pc = "entered"

\* C5: when run() has returned or propagated an error, clean_files has been
\* invoked for every variant whose __enter__ returned, also when the
\* clean_files of another variant raised.
C5_AllCleanupsRun ==
    ScopeExited => \A i \in entered : CleanInvoked(i)

C5_Witness ==
    /\ ScopeExited
    /\ \E k \in DOMAIN log :
           /\ log[k][2] = "clean_raise"
           /\ log[k][1] >= 2
           /\ \A j \in 1..(log[k][1] - 1) : CleanInvoked(j)

\* C6: clean_files() of a variant whose file does not exist raises nothing,
\* deletes nothing, reports it, and leaves the result records and all files
\* unchanged; when the file exists and the delete does not fail it removes
\* exactly that file.
C6_CleanFiles ==
    [][(pc = "exit" /\ exitIdx >= 1) =>
          LET p == Path(exitIdx) IN
          /\ bench' = bench
          /\ results' = results
          /\ p \notin files =>
                 /\ files' = files
                 /\ exc' = exc
                 /\ log' = Append(log, << exitIdx, "missing" >>)
          /\ p \in files =>
                 \/ /\ files' = files \ {p}
                    /\ exc' = exc
                    /\ log' = Append(log, << exitIdx, "cleaned" >>)
                 \/ /\ files' = files
                    /\ exc' = "clean"
                    /\ log' = Append(log, << exitIdx, "clean_raise" >>)]_vars

C6_Witness ==
    /\ pc = "exit"
    /\ log # << >>
    /\ log[Len(log)][2] = "missing"
    /\ exc = "none"

\* C7 (as claimed): a variant's cycle with repeat count N >= 1 is N writes,
\* then one size query, then N reads.
C7_ThreePhases ==
    \A i \in entered :
        N >= 1 => VariantOps(i) =
                      Repeat("write", N) \o << "size" >> \o Repeat("read", N)

\* C7 (amended): a variant's cycle with repeat count N is N rounds of
\* write, size query, read, in that order: the size is queried N times, once
\* per repeat after that repeat's write and before its read, and from the
\* second repeat on writes follow reads.
C7_PerRepeatRounds ==
    \A i \in Items :
        LET ops == VariantOps(i) IN
        /\ Len(ops) <= 3 * N
        /\ \A k \in DOMAIN ops :
               ops[k] = << "write", "size", "read" >>[((k - 1) % 3) + 1]
        /\ i \in entered => Len(ops) = 3 * N

C7_Witness == N >= 2 /\ entered # {} /\ pc = "body"

\* C8 (as claimed): the combined table is assigned only once every variant
\* has been measured and cleaned: no destination file is on disk then.
C8_AggregatedAfterCleaning ==
    Aggregated => \A i \in Items : Path(i) \notin files

\* C8 (amended): the combined table is assigned once every variant has been
\* measured (N writes, size queries and reads each) and before any variant
\* is cleaned: at that moment, for N >= 1, every destination file is still on
\* disk.  Cleaning of every variant follows the assignment, and when run()
\* returns normally every variant has been cleaned and no destination file
\* is left.
C8_AggregatedBeforeCleaning ==
    /\ Aggregated =>
           /\ entered = Items
           /\ \A i \in Items :
                  /\ Len(bench[i]) = N
                  /\ Len(VariantOps(i)) = 3 * N
                  /\ ~CleanInvoked(i)
                  /\ N >= 1 => Path(i) \in files
    /\ \A k \in DOMAIN log :
           log[k] = << 0, "aggregate" >> =>
               /\ \A m \in 1..(k - 1) : log[m][2] \in MeasureKinds
               /\ \A m \in (k + 1)..Len(log) : log[m][2] \in CleanKinds
    /\ (ScopeExited /\ ret # "raised") =>
           /\ \A i \in Items : CleanInvoked(i)
           /\ files = {}
           /\ \E k \in DOMAIN log : log[k] = << 0, "aggregate" >>

C8_Witness == Aggregated /\ N >= 1

\* The construction order of the variants as the claim C9 lists it.
ClaimedOrder ==
    << "csv", "json", "xml", "excel", "pickle", "hdf5", "feather", "parquet",
       "orc", "stata" >>

\* C9: variants are measured one at a time in construction order: every
\* measurement of a variant comes after all measurements of the variants
\* before it, which have all finished entering, and the rows a run adds to
\* the combined table are grouped by variant in the order csv, json, xml,
\* excel, pickle, hdf5, feather, parquet, orc, stata.
C9_SequentialInOrder ==
    /\ \A k \in DOMAIN log :
           (k > 1 /\ log[k][2] \in (MeasureKinds \cup RaiseKinds)) =>
               /\ log[k - 1][2] \in MeasureKinds
               /\ log[k - 1][1] <= log[k][1]
    /\ \A j \in Items :
           (\E k \in DOMAIN log :
                log[k][1] > j /\ log[k][2] \in (MeasureKinds \cup RaiseKinds))
               => j \in entered /\ Len(VariantOps(j)) = 3 * N
    /\ (\E k \in DOMAIN log : log[k] = << 0, "aggregate" >>) =>
           /\ Len(results) = Len(before) + NumItems * N
           /\ SubSeq(results, 1, Len(before)) = before
           /\ \A k \in 1..(NumItems * N) :
                  results[Len(before) + k] = ClaimedOrder[((k - 1) \div N) + 1]

C9_Witness == Aggregated /\ N >= 2

\* C10: when a write, size query or read raises during run(), no measurement
\* follows it (no retry, no later variant is constructed or measured), only
\* the clean_files of the variants entered before; the error reaches the
\* caller and the combined table is exactly what it was before the call.
C10_FailureAborts ==
    \A k \in DOMAIN log :
        log[k][2] \in RaiseKinds =>
            /\ results = before
            /\ \A m \in (k + 1)..Len(log) :
                   log[m][2] \in CleanKinds /\ log[m][1] < log[k][1]
            /\ \A j \in Items : j > log[k][1] => bench[j] = << >>
            /\ entered = 1..(log[k][1] - 1)
            /\ pc \in {"exit", "idle"}
            /\ pc = "idle" => (ret = "raised" /\ completed = prior[2])

C10_Witness ==
    /\ pc = "idle"
    /\ \E k \in DOMAIN log :
           /\ log[k][2] = "read_raise"
           /\ log[k][1] >= 2
           /\ results = before

====
